---- MODULE Spec2Model ----
(***************************************************************************)
(* Model of extract_logs.py: the Shipments pipeline that scans shipment    *)
(* log files, classifies each one (skipped / warning / processed),         *)
(* extracts four fields with regular expressions, moves the file, and      *)
(* finally exports the de-duplicated table.                                 *)
(*                                                                         *)
(* Text is modelled as a sequence of one-character strings, so that the    *)
(* regular expressions and the substring tests work on real characters.    *)
(* Indices are 1-based here: Python's l[0] is l[1].                        *)
(***************************************************************************)
EXTENDS Integers, Sequences, FiniteSets, TLC

(***************************************************************************)
(* Bounds of the model.                                                    *)
(***************************************************************************)
\* Number of files one run enumerates (iterations of the for loop).
MaxFiles == 2
\* Number of rows of the table handed to export_dataframe in SpecDedup.
MaxRows == 3

(***************************************************************************)
(* Character classes of Python's re module, restricted to ASCII.           *)
(***************************************************************************)
\* [\d]
Digits == {"0", "1", "2", "3", "4", "5", "6", "7", "8", "9"}

Letters ==
    {"a", "b", "c", "d", "e", "f", "g", "h", "i", "j", "k", "l", "m",
     "n", "o", "p", "q", "r", "s", "t", "u", "v", "w", "x", "y", "z",
     "A", "B", "C", "D", "E", "F", "G", "H", "I", "J", "K", "L", "M",
     "N", "O", "P", "Q", "R", "S", "T", "U", "V", "W", "X", "Y", "Z"}

\* [\w]
WordChars == Letters \cup Digits \cup {"_"}

\* [\s]
SpaceChars == {" ", "\t", "\n", "\r", "\f"}

(***************************************************************************)
(* Regular expressions.  A pattern is a sequence of elements; an element   *)
(* matches one character of a class (plus = FALSE) or a greedy run of one  *)
(* or more of them (plus = TRUE); group marks the capturing group.         *)
(***************************************************************************)
\* a literal character
Chr(c) == [cls |-> {c}, plus |-> FALSE, group |-> FALSE]

\* [cls]
One(cls) == [cls |-> cls, plus |-> FALSE, group |-> FALSE]

\* [cls]+
Many(cls) == [cls |-> cls, plus |-> TRUE, group |-> FALSE]

\* ([cls]+)
GroupMany(cls) == [cls |-> cls, plus |-> TRUE, group |-> TRUE]

\* a literal string
Literal(str) == [i \in 1..Len(str) |-> Chr(str[i])]

ShipmentColon == <<"S", "h", "i", "p", "m", "e", "n", "t", ":">>

\* re.compile(r"_([\d]+)")
reference_id_pattern == <<Chr("_"), GroupMany(Digits)>>

\* re.compile(r"Shipment:[\s]+([\w]+)")
job_number_pattern ==
    Literal(ShipmentColon) \o <<Many(SpaceChars), GroupMany(WordChars)>>

\* re.compile(r"Shipment:[\s]+[\w]+-([\w]+)")
distribution_order_number_p ==
    Literal(ShipmentColon)
        \o <<Many(SpaceChars), Many(WordChars), Chr("-"), GroupMany(WordChars)>>

\* re.compile(r",[\s]([\w]+),")
airwaybill_pattern ==
    <<Chr(","), One(SpaceChars), GroupMany(WordChars), Chr(",")>>

NoMatch == [ok |-> FALSE, end |-> 0, group |-> <<>>]

\* Length of the longest run of characters of cls in s that starts at i.
RECURSIVE RunLength(_, _, _)
RunLength(cls, s, i) ==
    IF i <= Len(s) /\ s[i] \in cls THEN 1 + RunLength(cls, s, i + 1) ELSE 0

\* The regex engine's match of elements k.. of pat at position i of s.
\* end is the position after the match, group the text of the group.
\* A run [cls]+ is greedy: MatchRun tries its longest length n first and
\* backtracks to shorter ones while the rest of the pattern does not match.
RECURSIVE MatchFrom(_, _, _, _), MatchRun(_, _, _, _, _)
MatchFrom(pat, k, s, i) ==
    IF k > Len(pat) THEN [ok |-> TRUE, end |-> i, group |-> <<>>]
    ELSE IF ~pat[k].plus
         THEN IF i <= Len(s) /\ s[i] \in pat[k].cls
              THEN MatchFrom(pat, k + 1, s, i + 1)
              ELSE NoMatch
         ELSE MatchRun(pat, k, s, i, RunLength(pat[k].cls, s, i))

MatchRun(pat, k, s, i, n) ==
    IF n < 1 THEN NoMatch
    ELSE LET rest == MatchFrom(pat, k + 1, s, i + n) IN
         IF ~rest.ok THEN MatchRun(pat, k, s, i, n - 1)
         ELSE IF pat[k].group
              THEN [rest EXCEPT !.group = SubSeq(s, i, i + n - 1)]
              ELSE rest

\* pattern.match at position i
MatchAt(pat, s, i) == MatchFrom(pat, 1, s, i)

\* The scan of pattern.findall: leftmost match from pos on, then resume
\* after that match (matches do not overlap).
RECURSIVE FindAllFrom(_, _, _)
FindAllFrom(pat, s, pos) ==
    IF pos > Len(s) THEN <<>>
    ELSE LET m == MatchAt(pat, s, pos) IN
         IF m.ok THEN <<m.group>> \o FindAllFrom(pat, s, m.end)
         ELSE FindAllFrom(pat, s, pos + 1)

\* pattern.findall(s): the groups of all non-overlapping matches, in order
findall(pat, s) == FindAllFrom(pat, s, 1)

\* Faulty variant, for mutation checks of the properties: l[-1] instead of l[0].
FirstOf_last(l) == l[Len(l)]

\* l[0]
FirstOf(l) == l[1]

\* Faulty variant, for mutation checks of the properties: a missing field gets a default value
\* (the commented-out _safe_list_get) instead of raising IndexError.
extract_default(filename, rawtext) ==
    LET get(l) == IF l = <<>> THEN <<"?">> ELSE FirstOf(l)
    IN  [raised |-> FALSE,
         reference_id |-> get(findall(reference_id_pattern, filename)),
         job_number |-> get(findall(job_number_pattern, rawtext)),
         distribution_order_number |->
             get(findall(distribution_order_number_p, rawtext)),
         airwaybill |-> get(findall(airwaybill_pattern, rawtext))]

\* Shipment.extract: l[0] of an empty list raises IndexError.
extract(filename, rawtext) ==
    LET r == findall(reference_id_pattern, filename)
        j == findall(job_number_pattern, rawtext)
        d == findall(distribution_order_number_p, rawtext)
        a == findall(airwaybill_pattern, rawtext)
    IN  IF r = <<>> \/ j = <<>> \/ d = <<>> \/ a = <<>>
        THEN [raised |-> TRUE]
        ELSE [raised |-> FALSE,
              reference_id |-> FirstOf(r),
              job_number |-> FirstOf(j),
              distribution_order_number |-> FirstOf(d),
              airwaybill |-> FirstOf(a)]

\* needle in s
Contains(needle, s) ==
    \E i \in 1..(Len(s) - Len(needle) + 1) :
        SubSeq(s, i, i + Len(needle) - 1) = needle

(***************************************************************************)
(* The files the source directory may hold.  A path is an index into       *)
(* SourceTree; a file has a name and a text.                               *)
(***************************************************************************)
ZRH == <<"Z", "R", "H">>
GVA == <<"G", "V", "A">>
Details1 == <<"1", "D", "e", "t", "a", "i", "l", "s">>
Details2 == <<"2", "D", "e", "t", "a", "i", "l", "s">>
SP == <<" ">>
NL == <<"\n">>
TXT == <<".", "t", "x", "t">>

\* "ZRH 1Details\nShipment: JOB456-DO789\n, AWB001,"
TextExample ==
    ZRH \o SP \o Details1 \o NL \o ShipmentColon
        \o <<" ", "J", "O", "B", "4", "5", "6", "-", "D", "O", "7", "8", "9">>
        \o NL \o <<",", " ", "A", "W", "B", "0", "0", "1", ",">>

\* "ZRH 1Details Shipment: J1 Shipment:\n J2-D2 Shipment: J3-D3, A1, , A2,"
TextSeveral ==
    ZRH \o SP \o Details1 \o SP \o ShipmentColon \o <<" ", "J", "1", " ">>
        \o ShipmentColon \o <<"\n", " ", "J", "2", "-", "D", "2", " ">>
        \o ShipmentColon \o <<" ", "J", "3", "-", "D", "3">>
        \o <<",", " ", "A", "1", ",", " ", ",", " ", "A", "2", ",">>

\* "GVA 1Details Shipment: JOB456-DO789 , AWB001,"
TextOtherSite ==
    GVA \o SP \o Details1 \o SP \o ShipmentColon
        \o <<" ", "J", "O", "B", "4", "5", "6", "-", "D", "O", "7", "8", "9">>
        \o <<" ", ",", " ", "A", "W", "B", "0", "0", "1", ",">>

\* "ZRH 2Details Shipment: J5-D5 , A5,"
TextTwoDetails ==
    ZRH \o SP \o Details2 \o SP \o ShipmentColon
        \o <<" ", "J", "5", "-", "D", "5", " ", ",", " ", "A", "5", ",">>

\* "ZRH 1Details , A7,"
TextNoShipment ==
    ZRH \o SP \o Details1 \o <<" ", ",", " ", "A", "7", ",">>

\* "ZRH 1Details Shipment: J8 , A8,"
TextNoHyphen ==
    ZRH \o SP \o Details1 \o SP \o ShipmentColon
        \o <<" ", "J", "8", " ", ",", " ", "A", "8", ",">>

\* "ZRH 1Details Shipment: J9-D9 ,  A9,"
TextNoAirwaybill ==
    ZRH \o SP \o Details1 \o SP \o ShipmentColon
        \o <<" ", "J", "9", "-", "D", "9", " ", ",", " ", " ", "A", "9", ",">>

SourceTree ==
    << [name |-> <<"l", "o", "g", "_", "0", "0", "1", "2", "3">> \o TXT,
        rawtext |-> TextExample],
       [name |-> <<"l", "o", "g", "_", "0", "0", "1", "2", "4">> \o TXT,
        rawtext |-> TextExample],
       [name |-> <<"a", "_", "7", "_", "8">> \o TXT,
        rawtext |-> TextSeveral],
       [name |-> <<"x", "_", "y", "_", "9">> \o TXT,
        rawtext |-> TextOtherSite],
       [name |-> <<"n", "d", "_", "5">> \o TXT,
        rawtext |-> TextTwoDetails],
       [name |-> <<"l", "o", "g">> \o TXT,
        rawtext |-> TextExample],
       [name |-> <<"n", "s", "_", "7">> \o TXT,
        rawtext |-> TextNoShipment],
       [name |-> <<"n", "h", "_", "8">> \o TXT,
        rawtext |-> TextNoHyphen],
       [name |-> <<"n", "a", "_", "9">> \o TXT,
        rawtext |-> TextNoAirwaybill] >>

Paths == DOMAIN SourceTree

\* Results of os.rename: success, or the exception it raises.
OSErrors == {"none", "PermissionError", "FileNotFoundError", "OSError"}

Dispositions == {"Processed", "Skipped", "Warning"}

\* self.commands.get("process_criteria", "ZRH")
process_criteria == ZRH

\* The elements of a sequence.
Range(s) == {s[i] : i \in DOMAIN s}

VARIABLES
    move_processed,                     \* settings of the run
    move_skipped,
    warn_if_more_than_1Detail,
    move_undhandled_files_to_warning,
    seen,               \* the paths the glob has yielded so far, in order
    opened,             \* the files whose text was read
    total_count,
    processed_count,
    skipped_count,
    warnings_count,
    df,                 \* the table of extract_information, a sequence of rows
    unique_df,          \* self.unique_df
    location,           \* the directory each file is in
    renames,            \* per file, the os.rename calls made and their result
    disposition,        \* per file, the counter that was incremented for it
    extract_calls,      \* the files Shipment.extract was called on
    log,                \* the warning and error entries of the log
    scan,               \* per file, what its name and text give (see Scan)
    pc                  \* "loop", "summary", "exported" or "raised"

vars ==
    <<move_processed, move_skipped, warn_if_more_than_1Detail,
      move_undhandled_files_to_warning, seen, opened, total_count,
      processed_count,
      skipped_count, warnings_count, df, unique_df, location, renames,
      disposition, extract_calls, log, scan, pc>>

settings ==
    <<move_processed, move_skipped, warn_if_more_than_1Detail,
      move_undhandled_files_to_warning, scan>>

(***************************************************************************)
(* What the loop computes from one file's name and text.  The files do    *)
(* not change during a run, so it is computed once, when the run starts,  *)
(* and kept in scan.                                                       *)
(***************************************************************************)
\* Faulty variant, for mutation checks of the properties: the test is made on the wrong marker.
in_scope_wrong_marker(rawtext) == Contains(Details1, rawtext)

\* self.process_criteria in rawtext
in_scope(rawtext) == Contains(process_criteria, rawtext)

\* Faulty variant, for mutation checks of the properties: any "Details" counts as "1Details".
has_1Details_any(rawtext) ==
    Contains(<<"D", "e", "t", "a", "i", "l", "s">>, rawtext)

\* "1Details" in rawtext
has_1Details(rawtext) == Contains(Details1, rawtext)

Scan ==
    [p \in Paths |->
        [in_scope |-> in_scope(SourceTree[p].rawtext),
         has_1Details |-> has_1Details(SourceTree[p].rawtext),
         shipment |-> extract(SourceTree[p].name, SourceTree[p].rawtext)]]

(***************************************************************************)
(* The methods of Shipments.  A method that logs or moves returns what it  *)
(* did as a record; LoopBody applies it to the state.                       *)
(***************************************************************************)
NoMove ==
    [attempted |-> FALSE, raised |-> FALSE, moved |-> FALSE,
     destination |-> "", log |-> <<>>]

\* Faulty variant, for mutation checks of the properties: PermissionError is not caught.
move_file_uncaught(path, destination, oserror) ==
    [attempted |-> TRUE, raised |-> oserror = "PermissionError",
     moved |-> oserror = "none", destination |-> destination,
     log |-> IF oserror = "FileNotFoundError"
             THEN <<[level |-> "error", msg |-> "File was not found", file |-> path]>>
             ELSE <<>>]

\* _move_file_safely: os.rename(path, destination) with its three handlers.
\* The last handler builds a message and does not log it.
_move_file_safely(path, destination, oserror) ==
    [attempted |-> TRUE, raised |-> FALSE,
     moved |-> oserror = "none", destination |-> destination,
     log |-> CASE oserror = "PermissionError" ->
                    <<[level |-> "error", msg |-> "File in use", file |-> path]>>
               [] oserror = "FileNotFoundError" ->
                    <<[level |-> "error", msg |-> "File was not found", file |-> path]>>
               [] OTHER -> <<>>]

\* Faulty variant, for mutation checks of the properties: the file is moved whatever the flag.
file_could_not_be_handled_always(textfile, oserror) ==
    _move_file_safely(textfile, "warning", oserror)

\* _file_could_not_be_handled: the move to the warning folder, under its flag
_file_could_not_be_handled(textfile, oserror) ==
    IF move_undhandled_files_to_warning
    THEN _move_file_safely(textfile, "warning", oserror)
    ELSE NoMove

\* _check_if_1Details: TRUE when the file must not be extracted
_check_if_1Details(textfile, rawtext) ==
    IF warn_if_more_than_1Detail
    THEN IF ~scan[textfile].has_1Details
         THEN [result |-> TRUE,
               log |-> <<[level |-> "warning", msg |-> "more than 1 Detail",
                          file |-> textfile]>>]
         ELSE [result |-> FALSE, log |-> <<>>]
    ELSE [result |-> FALSE, log |-> <<>>]

\* The row built from a Shipment after extract().
new_shipment_data(shipment, textfile) ==
    [reference_id |-> shipment.reference_id,
     job_number |-> shipment.job_number,
     distribution_order_number |-> shipment.distribution_order_number,
     airwaybill |-> shipment.airwaybill,
     path |-> textfile,
     unc_path |-> <<"UNC_processed", SourceTree[textfile].name>>]

\* extract_shipment_info: the try block and its bare except.  The message
\* of the except branch is no f-string and names no file (file 0).
extract_shipment_info(table, textfile, rawtext) ==
    LET shipment == scan[textfile].shipment IN
    IF shipment.raised
    THEN [df |-> table, patterns_found |-> FALSE,
          log |-> <<[level |-> "warning", msg |-> "did not match", file |-> 0]>>]
    ELSE [df |-> Append(table, new_shipment_data(shipment, textfile)),
          patterns_found |-> TRUE, log |-> <<>>]

\* The body of the for loop for one file, as what it does:
\*   disp     the counter the branch increments
\*   counted  whether the increment is reached (it follows the move in the
\*            two warning branches and precedes it in the other two)
\*   df       the table after the file
\*   called   whether extract_shipment_info was called
\*   log, mv  the entries logged before the move, and the move
Iteration(textfile, oserror) ==
    LET rawtext == SourceTree[textfile].rawtext
        chk == _check_if_1Details(textfile, rawtext)
        info == extract_shipment_info(df, textfile, rawtext)
        warn == _file_could_not_be_handled(textfile, oserror)
    IN  IF scan[textfile].in_scope
        THEN IF chk.result
             THEN [disp |-> "Warning", counted |-> ~warn.raised, df |-> df,
                   called |-> FALSE, log |-> chk.log, mv |-> warn]
             ELSE IF info.patterns_found
                  THEN [disp |-> "Processed", counted |-> TRUE, df |-> info.df,
                        called |-> TRUE, log |-> chk.log \o info.log,
                        mv |-> IF move_processed
                               THEN _move_file_safely(textfile, "processed", oserror)
                               ELSE NoMove]
                  ELSE [disp |-> "Warning", counted |-> ~warn.raised,
                        df |-> info.df, called |-> TRUE,
                        log |-> chk.log \o info.log, mv |-> warn]
        ELSE [disp |-> "Skipped", counted |-> TRUE, df |-> df,
              called |-> FALSE, log |-> <<>>,
              mv |-> IF move_skipped
                     THEN _move_file_safely(textfile, "skipped", oserror)
                     ELSE NoMove]

\* Faulty variant, for mutation checks of the properties: the branch of a file that matched
\* no pattern forgets its warnings_count += 1.
Bump_forgets(counter, it, disp) ==
    IF it.disp = disp /\ it.counted /\ ~(disp = "Warning" /\ it.called)
    THEN counter + 1
    ELSE counter

\* counter += 1 in the branch of disp, when the branch gets there
Bump(counter, it, disp) ==
    IF it.disp = disp /\ it.counted THEN counter + 1 ELSE counter

(***************************************************************************)
(* Actions.                                                                *)
(***************************************************************************)
\* The glob yields textfile and the loop body runs on it; oserror is what
\* os.rename does if the body moves the file.
LoopBody(textfile, oserror) ==
    /\ pc = "loop"
    /\ Len(seen) < MaxFiles
    /\ textfile \in Paths \ Range(seen)
    /\ LET it == Iteration(textfile, oserror) IN
        /\ ~it.mv.attempted => oserror = "none"
        /\ seen' = Append(seen, textfile)
        /\ opened' = opened \cup {textfile}
        /\ total_count' = total_count + 1
        /\ processed_count' = Bump(processed_count, it, "Processed")
        /\ skipped_count' = Bump(skipped_count, it, "Skipped")
        /\ warnings_count' = Bump(warnings_count, it, "Warning")
        /\ df' = it.df
        /\ disposition' =
             [disposition EXCEPT ![textfile] = IF it.counted THEN it.disp ELSE "None"]
        /\ extract_calls' =
             IF it.called THEN extract_calls \cup {textfile} ELSE extract_calls
        /\ renames' =
             [renames EXCEPT ![textfile] =
                 IF it.mv.attempted
                 THEN <<[destination |-> it.mv.destination, oserror |-> oserror]>>
                 ELSE <<>>]
        /\ location' =
             IF it.mv.moved
             THEN [location EXCEPT ![textfile] = it.mv.destination]
             ELSE location
        /\ log' = log \o it.log \o it.mv.log
        /\ pc' = IF it.mv.raised THEN "raised" ELSE "loop"
    /\ UNCHANGED <<settings, unique_df>>

\* The glob yields textfile and open() or read() raises: nothing in
\* extract_information or run catches it.
OpenRaises(textfile) ==
    /\ pc = "loop"
    /\ Len(seen) < MaxFiles
    /\ textfile \in Paths \ Range(seen)
    /\ seen' = Append(seen, textfile)
    /\ total_count' = total_count + 1
    /\ pc' = "raised"
    /\ UNCHANGED <<settings, opened, processed_count, skipped_count,
                   warnings_count, df, unique_df, location, renames, disposition,
                   extract_calls, log>>

\* The glob is exhausted: self.df = df, the summary is logged and printed.
Summary ==
    /\ pc = "loop"
    /\ pc' = "summary"
    /\ UNCHANGED <<settings, seen, opened, total_count, processed_count,
                   skipped_count, warnings_count, df, unique_df, location,
                   renames, disposition, extract_calls, log>>

\* The columns of drop_duplicates(subset=...)
subset == {"distribution_order_number", "airwaybill"}

KeyOf(row) == [c \in subset |-> row[c]]

\* Faulty variant, for mutation checks of the properties: keep='last'.
RECURSIVE DropFromLast(_, _)
DropFromLast(rows, i) ==
    IF i > Len(rows) THEN <<>>
    ELSE IF \E j \in (i + 1)..Len(rows) : KeyOf(rows[j]) = KeyOf(rows[i])
         THEN DropFromLast(rows, i + 1)
         ELSE <<rows[i]>> \o DropFromLast(rows, i + 1)

drop_duplicates_last(rows) == DropFromLast(rows, 1)

\* The pass of DataFrame.duplicated (keep='first'): a row is dropped when
\* its key has been met in an earlier row.
RECURSIVE DropFrom(_, _, _)
DropFrom(rows, i, keys) ==
    IF i > Len(rows) THEN <<>>
    ELSE IF KeyOf(rows[i]) \in keys
         THEN DropFrom(rows, i + 1, keys)
         ELSE <<rows[i]>> \o DropFrom(rows, i + 1, keys \cup {KeyOf(rows[i])})

\* self.df.drop_duplicates(subset=[...], inplace=False)
drop_duplicates(rows) == DropFrom(rows, 1, {})

\* export_dataframe: self.unique_df, which to_csv then writes
export_dataframe ==
    /\ pc = "summary"
    /\ unique_df' = drop_duplicates(df)
    /\ pc' = "exported"
    /\ UNCHANGED <<settings, seen, opened, total_count, processed_count,
                   skipped_count, warnings_count, df, location, renames,
                   disposition, extract_calls, log>>

(***************************************************************************)
(* The run: Shipments("settings.json"), extract_information(),             *)
(* export_dataframe().                                                      *)
(***************************************************************************)
InitLoop ==
    /\ seen = <<>>
    /\ opened = {}
    /\ total_count = 0
    /\ processed_count = 0
    /\ skipped_count = 0
    /\ warnings_count = 0
    /\ unique_df = <<>>
    /\ location = [p \in Paths |-> "source"]
    /\ renames = [p \in Paths |-> <<>>]
    /\ disposition = [p \in Paths |-> "None"]
    /\ extract_calls = {}
    /\ log = <<>>
    /\ scan = Scan

Init ==
    /\ move_processed \in BOOLEAN
    /\ move_skipped \in BOOLEAN
    /\ warn_if_more_than_1Detail \in BOOLEAN
    /\ move_undhandled_files_to_warning \in BOOLEAN
    /\ InitLoop
    /\ df = <<>>
    /\ pc = "loop"

Next ==
    \/ \E textfile \in Paths, oserror \in OSErrors : LoopBody(textfile, oserror)
    \/ \E textfile \in Paths : OpenRaises(textfile)
    \/ Summary
    \/ export_dataframe

Spec == Init /\ [][Next]_vars

(***************************************************************************)
(* export_dataframe on its own: self.df is any table of at most MaxRows    *)
(* rows, each from a file of its own; the settings are the defaults and    *)
(* the locals of extract_information are gone.                             *)
(***************************************************************************)
DedupRows ==
    {[reference_id |-> r, job_number |-> <<"J">> \o d,
      distribution_order_number |-> d, airwaybill |-> a, path |-> 0,
      unc_path |-> <<"UNC_processed", <<"f", "_">> \o r \o TXT>>] :
        r \in {<<"1">>, <<"2">>},
        d \in {<<"D", "1">>, <<"D", "2">>},
        a \in {<<"A", "1">>, <<"A", "2">>}}

DedupTables ==
    UNION {{[i \in 1..n |-> [t[i] EXCEPT !.path = i]] : t \in [1..n -> DedupRows]} :
              n \in 0..MaxRows}

InitDedup ==
    /\ move_processed = FALSE
    /\ move_skipped = FALSE
    /\ warn_if_more_than_1Detail = TRUE
    /\ move_undhandled_files_to_warning = TRUE
    /\ InitLoop
    /\ df \in DedupTables
    /\ pc = "summary"

NextDedup == export_dataframe

SpecDedup == InitDedup /\ [][NextDedup]_vars

(***************************************************************************)
(* Properties.  The classes of files below are stated from the texts and   *)
(* the patterns alone, not from what the loop computed.                    *)
(***************************************************************************)
Text(p) == SourceTree[p].rawtext

Name(p) == SourceTree[p].name

\* The files whose text does not contain the scope marker.
LacksMarker == {p \in Paths : ~Contains(process_criteria, Text(p))}

\* The files whose text does not contain "1Details".
Lacks1Details == {p \in Paths : ~Contains(Details1, Text(p))}

\* pat matches somewhere in s.
HasMatch(pat, s) == \E i \in 1..Len(s) : MatchAt(pat, s, i).ok

\* The group of the match of pat in s that starts leftmost.
Leftmost(pat, s) ==
    LET i == CHOOSE x \in 1..Len(s) :
                 /\ MatchAt(pat, s, x).ok
                 /\ \A y \in 1..(x - 1) : ~MatchAt(pat, s, y).ok
    IN  MatchAt(pat, s, i).group

\* The files on which each of the four patterns has a match.
AllFourMatch ==
    {p \in Paths :
        /\ HasMatch(reference_id_pattern, Name(p))
        /\ HasMatch(job_number_pattern, Text(p))
        /\ HasMatch(distribution_order_number_p, Text(p))
        /\ HasMatch(airwaybill_pattern, Text(p))}

\* For these, the first match of each pattern.
FirstMatches ==
    [p \in AllFourMatch |->
        [reference_id |-> Leftmost(reference_id_pattern, Name(p)),
         job_number |-> Leftmost(job_number_pattern, Text(p)),
         distribution_order_number |->
             Leftmost(distribution_order_number_p, Text(p)),
         airwaybill |-> Leftmost(airwaybill_pattern, Text(p))]]

\* In scope, and simple under the setting of the run.
InScopeSimple(p) ==
    /\ p \notin LacksMarker
    /\ warn_if_more_than_1Detail => p \notin Lacks1Details

\* The disposition the text of a file calls for.
Expected(p) ==
    IF p \in LacksMarker THEN "Skipped"
    ELSE IF ~InScopeSimple(p) THEN "Warning"
    ELSE IF p \in AllFourMatch THEN "Processed"
    ELSE "Warning"

\* The rows of a table that come from file p.
RowsOf(table, p) == {i \in DOMAIN table : table[i].path = p}

\* The file's one os.rename failed.
MoveFailed(p) == renames[p] # <<>> /\ renames[p][1].oserror # "none"

\* C1: a file that was read and whose text lacks the scope marker is
\* counted as skipped, Shipment.extract is never called on it, and no row
\* of the table or of the exported table comes from it, under every
\* setting of the four toggles.
C1_SkippedNeverReported ==
    /\ \A p \in opened \cap LacksMarker :
          /\ disposition[p] = "Skipped"
          /\ p \notin extract_calls
          /\ RowsOf(df, p) = {}
          /\ RowsOf(unique_df, p) = {}
    /\ skipped_count = Cardinality(opened \cap LacksMarker)

\* C1 happens: a file without the marker on which all four patterns would
\* match has been read, in a run that moves processed files.
C1_Witness ==
    /\ move_processed
    /\ \E p \in opened \cap LacksMarker \cap AllFourMatch :
          p \notin Lacks1Details

\* C2: with warn_if_more_than_1Detail on, a file that was read, has the
\* scope marker and lacks "1Details" is counted as a warning and no row
\* comes from it, also when all four patterns match it.
C2_MultiDetailWarned ==
    warn_if_more_than_1Detail =>
        /\ \A p \in (opened \cap Lacks1Details) \ LacksMarker :
              /\ disposition[p] = "Warning"
              /\ p \notin extract_calls
              /\ RowsOf(df, p) = {}
              /\ RowsOf(unique_df, p) = {}
        /\ warnings_count
               >= Cardinality((opened \cap Lacks1Details) \ LacksMarker)

\* C2 happens: such a file, on which all four patterns match, was read.
C2_Witness ==
    /\ warn_if_more_than_1Detail
    /\ \E p \in ((opened \cap Lacks1Details) \ LacksMarker) \cap AllFourMatch :
          disposition[p] = "Warning"

\* C3: from a file that was read, is in scope and simple, and on which all
\* four patterns match, exactly one row comes, the file is counted as
\* processed, and each field of the row is the leftmost match of its own
\* pattern.
C3_FirstMatchRecord ==
    \A p \in opened \cap AllFourMatch :
        InScopeSimple(p) =>
            /\ disposition[p] = "Processed"
            /\ Cardinality(RowsOf(df, p)) = 1
            /\ \A i \in RowsOf(df, p) :
                  /\ df[i].reference_id = FirstMatches[p].reference_id
                  /\ df[i].job_number = FirstMatches[p].job_number
                  /\ df[i].distribution_order_number =
                         FirstMatches[p].distribution_order_number
                  /\ df[i].airwaybill = FirstMatches[p].airwaybill

\* C3 happens: a_7_8.txt, where every pattern matches more than once and
\* the first job number and the first distribution order number come from
\* different "Shipment:" lines, was processed.
C3_Witness ==
    /\ 3 \in opened
    /\ disposition[3] = "Processed"
    /\ Len(findall(job_number_pattern, Text(3))) = 3
    /\ \E i \in RowsOf(df, 3) :
          /\ df[i].reference_id = <<"7">>
          /\ df[i].job_number = <<"J", "1">>
          /\ df[i].distribution_order_number = <<"D", "2">>
          /\ df[i].airwaybill = <<"A", "1">>

\* C4: the iteration on a file that is in scope and simple and on which
\* one of the four patterns has no match leaves the table as it was,
\* counts the file as a warning and goes back to the loop.
C4_AllOrNothing ==
    [][\A p \in Paths \ AllFourMatch :
          (p \in opened' /\ p \notin opened /\ InScopeSimple(p)) =>
              /\ df' = df
              /\ warnings_count' = warnings_count + 1
              /\ processed_count' = processed_count
              /\ disposition'[p] = "Warning"
              /\ pc' = "loop"]_vars

\* C4 happens: nh_8.txt, where the job number matches and the distribution
\* order number does not, was handled after a processed file and before
\* the end of the run.
C4_Witness ==
    /\ Len(seen) = 2
    /\ seen[2] = 8
    /\ 8 \in opened
    /\ InScopeSimple(8)
    /\ HasMatch(job_number_pattern, Text(8))
    /\ ~HasMatch(distribution_order_number_p, Text(8))
    /\ Len(df) = 1
    /\ pc = "summary"

\* The first row of each key, in the order of the table.
KeepFirst(table) ==
    {i \in DOMAIN table :
        \A j \in 1..(i - 1) :
            \/ table[j].distribution_order_number # table[i].distribution_order_number
            \/ table[j].airwaybill # table[i].airwaybill}

\* C5: the exported table holds, in the order of arrival, exactly the rows
\* that are the first of their key (distribution_order_number, airwaybill):
\* every later row of a key is dropped whatever its other fields, and
\* every key of the table is in the exported table once.
C5_KeepFirstOfEachKey ==
    pc = "exported" =>
        /\ Len(unique_df) = Cardinality(KeepFirst(df))
        /\ \A i \in KeepFirst(df) :
              unique_df[Cardinality({j \in KeepFirst(df) : j <= i})] = df[i]
        /\ \A i \in DOMAIN df :
              Cardinality({u \in DOMAIN unique_df :
                  /\ unique_df[u].distribution_order_number
                         = df[i].distribution_order_number
                  /\ unique_df[u].airwaybill = df[i].airwaybill}) = 1

\* C5 happens: rows 1 and 3 have one key and different reference ids, row 2
\* has another key; rows 1 and 2 were exported.
C5_Witness ==
    /\ pc = "exported"
    /\ Len(df) = 3
    /\ df[1].distribution_order_number = df[3].distribution_order_number
    /\ df[1].airwaybill = df[3].airwaybill
    /\ df[1].reference_id # df[3].reference_id
    /\ df[2].airwaybill # df[1].airwaybill
    /\ unique_df = <<df[1], df[2]>>

\* C6: a file whose move failed is counted under the disposition of its
\* text, a processed one keeps its one row, every file read so far is
\* counted, and the run did not end on it.
C6_FailedMoveKeepsOutcome ==
    \A p \in opened :
        MoveFailed(p) =>
            /\ disposition[p] = Expected(p)
            /\ Expected(p) = "Processed" => Cardinality(RowsOf(df, p)) = 1
            /\ Expected(p) # "Processed" => RowsOf(df, p) = {}
            /\ processed_count + skipped_count + warnings_count
                   = Cardinality(opened)
            /\ pc = "raised" => seen[Len(seen)] # p

\* C6 happens: the move of a processed file failed because the file was in
\* use, and the loop went on to a second file.
C6_Witness ==
    /\ Len(seen) = 2
    /\ seen[2] \in opened
    /\ MoveFailed(seen[1])
    /\ renames[seen[1]][1].oserror = "PermissionError"
    /\ disposition[seen[1]] = "Processed"
    /\ Len(df) >= 1

\* C7: no exception leaves the processing of a file: the run never ends
\* on a raised exception and every enumerated file has a disposition.
C7_NoExceptionEscapes ==
    /\ pc # "raised"
    /\ \A p \in Range(seen) : disposition[p] \in Dispositions

\* C8: every failed move has an error entry in the log.
C8_EveryFailedMoveLogged ==
    \A p \in Paths :
        MoveFailed(p) =>
            \E i \in DOMAIN log : log[i].level = "error" /\ log[i].file = p

\* The flag and the directory of a disposition.
FlagOf(d) ==
    CASE d = "Processed" -> move_processed
      [] d = "Skipped" -> move_skipped
      [] d = "Warning" -> move_undhandled_files_to_warning

DirOf(d) ==
    CASE d = "Processed" -> "processed"
      [] d = "Skipped" -> "skipped"
      [] d = "Warning" -> "warning"

\* C9: a file that was read is moved at most once, exactly when the flag
\* of its disposition is on, and to the directory of its disposition; it
\* is there when the move succeeded and in the source directory
\* otherwise.  A file that was not read is not moved.
C9_MoveFollowsDisposition ==
    /\ \A p \in opened :
          /\ disposition[p] \in Dispositions
          /\ Len(renames[p]) <= 1
          /\ renames[p] # <<>> <=> FlagOf(disposition[p])
          /\ renames[p] # <<>> =>
                 renames[p][1].destination = DirOf(disposition[p])
          /\ location[p] = IF renames[p] # <<>> /\ ~MoveFailed(p)
                           THEN DirOf(disposition[p])
                           ELSE "source"
    /\ \A p \in Paths \ opened : renames[p] = <<>> /\ location[p] = "source"

\* C9 happens: a file with the marker and no match was moved to the
\* warning directory while a processed file stayed, move_processed off.
C9_Witness ==
    /\ ~move_processed
    /\ \E p, q \in opened :
          /\ disposition[p] = "Warning"
          /\ p \notin Lacks1Details
          /\ location[p] = "warning"
          /\ disposition[q] = "Processed"
          /\ location[q] = "source"

CountOf(d) ==
    CASE d = "Processed" -> processed_count
      [] d = "Skipped" -> skipped_count
      [] d = "Warning" -> warnings_count

\* C10: every file that was read is counted once, under the disposition
\* of its text, and the table has processed_count rows; after each
\* completed iteration and at the summary (that is, unless open() raised
\* in the last iteration) total_count is the number of enumerated files
\* and the sum of the other three counters.
C10_CountersAddUp ==
    /\ \A d \in Dispositions :
          CountOf(d) = Cardinality({p \in opened : Expected(p) = d})
    /\ processed_count + skipped_count + warnings_count = Cardinality(opened)
    /\ Len(df) = processed_count
    /\ pc # "raised" =>
          /\ total_count = Len(seen)
          /\ total_count = processed_count + skipped_count + warnings_count

\* C10 happens: the summary of a run of one processed and one warned file.
C10_Witness ==
    /\ pc = "summary"
    /\ total_count = 2
    /\ processed_count = 1
    /\ warnings_count = 1

====
